---- MODULE Spec2Model ----
(***************************************************************************)
(* Galactus: the mute/deafen dispatch service (src/internal/server.go).    *)
(*                                                                         *)
(* The module models                                                       *)
(*   - the shared store's rate counters (INCR / EXPIRE / SET with TTL) and *)
(*     the guild token set (SMEMBERS / SREM),                              *)
(*   - the POST /modify handler of Run and its pool of workers,            *)
(*   - the rate gate IncrAndTestGuildTokenComboLock and                   *)
(*     BlacklistTokenForDuration under concurrent callers and time,        *)
(*   - the session registry (openAndStartSessionWithToken, Close) and the  *)
(*     newGuild handler of its sessions,                                   *)
(*   - waitForAck: the timer, the ack channel and the select.              *)
(*                                                                         *)
(* Spec       one POST /modify batch: handler and workers                  *)
(* SpecGate   the rate gate under concurrent callers, store faults, time   *)
(* SpecReg    the session registry and the guild-available events          *)
(* SpecAck    one waitForAck on an open subscription                       *)
(***************************************************************************)
EXTENDS Integers, Sequences, FiniteSets, TLC

\* ------------------------------------------------------------------ bounds
MaxUsers == 2
MaxWorkersCfg == 2
MaxReqCfg == 2
\* longest cooldown, in seconds, the chat service advertises with a rate limit
MaxCooldown == 1
\* concurrent callers of the rate gate, and the calls they make in all
MaxCallers == 2
MaxCalls == 3
MaxBlacklists == 1
\* concurrent callers of openAndStartSessionWithToken
MaxOpeners == 2
\* payloads the ack channel of one subscription buffers
MaxAcks == 2

\* -------------------------------------------------------- program constants
\* time.Second*5 of the Expire call, in seconds
ExpireSeconds == 5
\* time.Minute*5, in seconds
UnresponsiveCaptureBlacklistDuration == 300
DefaultMaxWorkers == 8

Hashes == {"h1", "h2"}
\* the key the capture tier is rate-limited under
CaptureSentinel == "capture"
Keys == Hashes \cup {CaptureSentinel}

\* premium tiers a request may carry; 6 stands for any tier the map lacks
PremiumInputs == {0, 1, 2, 3, 6}

PremiumBotConstraints(premium) ==
    CASE premium = 0 -> 0
      [] premium = 1 -> 0
      [] premium = 2 -> 1
      [] premium = 3 -> 3
      [] premium = 4 -> 10
      [] premium = 5 -> 100
      [] OTHER -> 0

VARIABLES
    \* shared store
    rateCounter,          \* key -> [ex, val, ttl]; ttl 0: the key never expires
    guildTokens,          \* GuildTokenSet(guildID)
    \* GalactusAPI
    activeSessions,       \* identity hashes with a registered session
    maxRequests5Seconds,
    sessionReaders,       \* holders of sessionLock.RLock
    \* Run
    maxWorkers,
    \* one POST /modify
    hpc, premium, nUsers, limit, tokens, tasksChannel, chanClosed, wg, mdsc, mdscLock,
    err, spawned, fed, response,
    \* workers of the batch
    wpc, cur, idx, sel, tier,
    \* history of the batch, per user
    tierRes, charged, examined, removed,
    rlSignals,            \* rate-limit signals the chat service gave in the batch
    \* callers of the rate gate on one (guildID, hashToken) pair
    gpc, gi, gfault, gres, gBl,
    \* history of the gate
    calls, blCalls, blLeft, admits, admitsAll,
    expireErrs,           \* Expire commands the store answered with an error
    \* the session registry: sessionLock.Lock holder, openers, Close
    sessionWriter, opc, otok, ores, cpc,
    \* sessions open towards the chat service, per identity hash
    liveSessions,
    \* identity hashes whose open session has the newGuild handler attached
    handlers,
    \* identity hashes whose open session has emitted a guild-available event
    evSeen,
    \* one waitForAck: its position, the timer, the ack channel of the
    \* subscription, the event its select took, the result channel, the
    \* subscription itself
    apc, timerFired, ackChannel, ackTaken, ackResult, subOpen,
    \* history of the wait: the event that came first, and whether the select
    \* found both the timer and a payload pending
    ackFirst, ackRace

storeVars == <<rateCounter, guildTokens>>
apiVars == <<activeSessions, maxRequests5Seconds, sessionReaders>>
handlerVars == <<hpc, premium, nUsers, limit, tokens, tasksChannel, chanClosed, wg, mdsc,
                 mdscLock, err, spawned, fed, response>>
workerVars == <<wpc, cur, idx, sel, tier>>
histVars == <<tierRes, charged, examined, removed, rlSignals>>
gateVars == <<gpc, gi, gfault, gres, gBl, calls, blCalls, blLeft, admits, admitsAll,
              expireErrs>>
regVars == <<sessionWriter, opc, otok, ores, cpc, liveSessions, handlers, evSeen>>
batchVars == <<maxWorkers, handlerVars, workerVars, histVars>>
ackVars == <<apc, timerFired, ackChannel, ackTaken, ackResult, subOpen, ackFirst, ackRace>>
vars == <<storeVars, apiVars, batchVars, gateVars, regVars, ackVars>>

Workers == 1..MaxWorkersCfg
Users == 1..MaxUsers
GateCallers == 1..MaxCallers
Openers == 1..MaxOpeners

\* ------------------------------------------------------------ shared store
NoKey == [ex |-> FALSE, val |-> 0, ttl |-> 0]

\* INCR: creates the key at 1 without a TTL, else adds one and keeps the TTL
StoreIncr(rc, k) ==
    [rc EXCEPT ![k] = IF @.ex THEN [@ EXCEPT !.val = @ + 1]
                               ELSE [ex |-> TRUE, val |-> 1, ttl |-> 0]]

\* EXPIRE: sets the TTL of an existing key
StoreExpire(rc, k, d) ==
    IF rc[k].ex THEN [rc EXCEPT ![k].ttl = d] ELSE rc

\* SET key value EX d
StoreSet(rc, k, v, d) ==
    [rc EXCEPT ![k] = [ex |-> TRUE, val |-> v, ttl |-> d]]

\* Usable with the bound included: a count equal to the maximum still passes
UsableInclusive(i, maxReq) == i <= maxReq
\* usable := i < tokenProvider.maxRequests5Seconds
Usable(i, maxReq) == i < maxReq

\* the value Incr(...).Result() hands back: 0 with an error
IncrResult(rc, k, fault) == IF fault THEN 0 ELSE StoreIncr(rc, k)[k].val

\* IncrAndTestGuildTokenComboLock as one step: the returned bool
Admitted(rc, k, maxReq, fault) == Usable(IncrResult(rc, k, fault), maxReq)

\* IncrAndTestGuildTokenComboLock as one step: the store afterwards
AfterAdmit(rc, k, maxReq, fault) ==
    LET inc == IF fault THEN rc ELSE StoreIncr(rc, k)
    IN  IF Admitted(rc, k, maxReq, fault)
        THEN StoreExpire(inc, k, ExpireSeconds)
        ELSE inc

\* BlacklistTokenForDuration
AfterBlacklist(rc, k, maxReq, d) == StoreSet(rc, k, maxReq, d)


\* -------------------------------------------------------- POST /modify: Run
\* SMembers hands the set back in an order of its own
SnapshotsOf(S) ==
    {s \in [1..Cardinality(S) -> S] : \A i, j \in 1..Cardinality(S) : i # j => s[i] # s[j]}

ZeroCounts == [Worker |-> 0, Capture |-> 0, Official |-> 0, RateLimit |-> 0]
NoResponse == [status |-> 0, body |-> ZeroCounts]
NoTiers == << >>

RequestKinds == {"badGuildID", "unreadableBody", "badJSON", "ok"}

BatchIdle ==
    /\ hpc = "idle" /\ premium = 0 /\ nUsers = 0 /\ limit = 0 /\ tokens = << >>
    /\ tasksChannel = << >> /\ chanClosed = FALSE /\ wg = 0
    /\ mdsc = ZeroCounts /\ mdscLock = 0 /\ err = "nil"
    /\ spawned = 0 /\ fed = 0 /\ response = NoResponse
    /\ wpc = [w \in Workers |-> "off"]
    /\ cur = [w \in Workers |-> 0]
    /\ idx = [w \in Workers |-> 0]
    /\ sel = [w \in Workers |-> "none"]
    /\ tier = [w \in Workers |-> "none"]
    /\ tierRes = [u \in Users |-> NoTiers]
    /\ charged = [u \in Users |-> << >>]
    /\ examined = [u \in Users |-> 0]
    /\ removed = {}
    /\ rlSignals = 0

GateIdle ==
    /\ gpc = [c \in GateCallers |-> "idle"]
    /\ gi = [c \in GateCallers |-> 0]
    /\ gfault = [c \in GateCallers |-> FALSE]
    /\ gres = [c \in GateCallers |-> FALSE]
    /\ gBl = [c \in GateCallers |-> FALSE]
    /\ calls = 0 /\ blCalls = 0 /\ blLeft = 0 /\ admits = 0 /\ admitsAll = 0
    /\ expireErrs = 0

\* no registration and no Close under way; every registered session is open
RegIdle ==
    /\ sessionWriter = 0
    /\ opc = [p \in Openers |-> "idle"]
    /\ otok = [p \in Openers |-> "none"]
    /\ ores = [p \in Openers |-> FALSE]
    /\ cpc = "idle"
    /\ liveSessions = [h \in Hashes |-> IF h \in activeSessions THEN 1 ELSE 0]
    /\ handlers = activeSessions
    /\ evSeen = {}

\* no waitForAck under way
AckIdle ==
    /\ apc = "off" /\ timerFired = FALSE /\ ackChannel = << >> /\ ackTaken = "none"
    /\ ackResult = << >> /\ subOpen = FALSE /\ ackFirst = "none" /\ ackRace = FALSE

Init ==
    /\ rateCounter = [k \in Keys |-> NoKey]
    /\ guildTokens \in SUBSET Hashes
    /\ activeSessions \in SUBSET Hashes
    /\ maxRequests5Seconds \in 1..MaxReqCfg
    /\ sessionReaders = {}
    /\ maxWorkers \in (0 - 1)..MaxWorkersCfg
    /\ BatchIdle
    /\ GateIdle
    /\ RegIdle
    /\ AckIdle

\* ModifyReject without its return: 400 is written and the handler goes on
\* with the zero-valued request
ModifyRejectNoReturn(kind) ==
    /\ hpc = "idle"
    /\ kind # "ok"
    /\ hpc' = "spawn"
    /\ response' = [status |-> 400, body |-> ZeroCounts]
    /\ err' = IF kind = "badGuildID" THEN err ELSE "error"
    /\ UNCHANGED <<storeVars, apiVars, maxWorkers, workerVars, histVars>>
    /\ UNCHANGED <<premium, nUsers, limit, tokens, tasksChannel, chanClosed, wg,
                   mdsc, mdscLock, spawned, fed>>
    /\ UNCHANGED <<gateVars, regVars, ackVars>>

\* strconv.ParseUint fails, ReadAll fails or json.Unmarshal fails: 400
ModifyReject(kind) ==
    /\ hpc = "idle"
    /\ kind # "ok"
    /\ hpc' = "done"
    /\ response' = [status |-> 400, body |-> ZeroCounts]
    /\ err' = IF kind = "badGuildID" THEN err ELSE "error"
    /\ UNCHANGED <<storeVars, apiVars, maxWorkers, workerVars, histVars>>
    /\ UNCHANGED <<premium, nUsers, limit, tokens, tasksChannel, chanClosed, wg,
                   mdsc, mdscLock, spawned, fed>>
    /\ UNCHANGED <<gateVars, regVars, ackVars>>

\* the request is well-formed: limit, the token snapshot, the channel, the counters
ModifyAccept(tierOfGuild, n, snapshot) ==
    /\ hpc = "idle"
    /\ hpc' = "spawn"
    /\ err' = "nil"
    /\ premium' = tierOfGuild
    /\ nUsers' = n
    /\ limit' = PremiumBotConstraints(tierOfGuild)
    /\ tokens' = snapshot
    /\ tasksChannel' = << >>
    /\ chanClosed' = FALSE
    /\ wg' = 0
    /\ mdsc' = ZeroCounts
    /\ mdscLock' = 0
    /\ UNCHANGED <<storeVars, apiVars, maxWorkers, workerVars, histVars>>
    /\ UNCHANGED <<spawned, fed, response>>
    /\ UNCHANGED <<gateVars, regVars, ackVars>>

ModifyRequest ==
    \/ \E kind \in RequestKinds : ModifyReject(kind)
    \/ \E tierOfGuild \in PremiumInputs, n \in 0..MaxUsers,
          snapshot \in SnapshotsOf(guildTokens) \cup {<< >>} :
            ModifyAccept(tierOfGuild, n, snapshot)

\* for i := 0; i < maxWorkers; i++ { go func() {...}() }
StartWorkers ==
    /\ hpc = "spawn"
    /\ IF spawned < maxWorkers
       THEN /\ spawned' = spawned + 1
            /\ wpc' = [wpc EXCEPT ![spawned + 1] = "recv"]
            /\ hpc' = hpc
       ELSE /\ hpc' = "feed"
            /\ UNCHANGED <<spawned, wpc>>
    /\ UNCHANGED <<storeVars, apiVars, maxWorkers, histVars>>
    /\ UNCHANGED <<premium, nUsers, limit, tokens, tasksChannel, chanClosed, wg, mdsc,
                   mdscLock, err, fed, response>>
    /\ UNCHANGED <<cur, idx, sel, tier>>
    /\ UNCHANGED <<gateVars, regVars, ackVars>>

\* for _, modifyReq := range Users { wg.Add(1); tasksChannel <- modifyReq }
FeedTasks ==
    /\ hpc = "feed"
    /\ IF fed < nUsers
       THEN /\ Len(tasksChannel) < nUsers
            /\ wg' = wg + 1
            /\ tasksChannel' = Append(tasksChannel, fed + 1)
            /\ fed' = fed + 1
            /\ hpc' = hpc
       ELSE /\ hpc' = "wait"
            /\ UNCHANGED <<wg, tasksChannel, fed>>
    /\ UNCHANGED <<storeVars, apiVars, maxWorkers, workerVars, histVars>>
    /\ UNCHANGED <<premium, nUsers, limit, tokens, chanClosed, mdsc, mdscLock, err,
                   spawned, response>>
    /\ UNCHANGED <<gateVars, regVars, ackVars>>

\* wg.Wait()
WaitTasks ==
    /\ hpc = "wait"
    /\ wg = 0
    /\ hpc' = "close"
    /\ UNCHANGED <<storeVars, apiVars, maxWorkers, workerVars, histVars>>
    /\ UNCHANGED <<premium, nUsers, limit, tokens, tasksChannel, chanClosed, wg, mdsc,
                   mdscLock, err, spawned, fed, response>>
    /\ UNCHANGED <<gateVars, regVars, ackVars>>

\* close(tasksChannel)
CloseTasks ==
    /\ hpc = "close"
    /\ chanClosed' = TRUE
    /\ hpc' = "respond"
    /\ UNCHANGED <<storeVars, apiVars, maxWorkers, workerVars, histVars>>
    /\ UNCHANGED <<premium, nUsers, limit, tokens, tasksChannel, wg, mdsc, mdscLock,
                   err, spawned, fed, response>>
    /\ UNCHANGED <<gateVars, regVars, ackVars>>

\* WriteHeader(200); json.Marshal(mdsc); Write
Respond ==
    /\ hpc = "respond"
    /\ response' = [status |-> 200, body |-> mdsc]
    /\ hpc' = "done"
    /\ UNCHANGED <<storeVars, apiVars, maxWorkers, workerVars, histVars>>
    /\ UNCHANGED <<premium, nUsers, limit, tokens, tasksChannel, chanClosed, wg, mdsc,
                   mdscLock, err, spawned, fed>>
    /\ UNCHANGED <<gateVars, regVars, ackVars>>


\* ------------------------------------------------- the workers of one batch
\* the store answers every command of a batch; its faults are examined under SpecGate
BatchFaults == {FALSE}

\* success := attemptOnSecondaryTokens(...); if success { Worker++ } else { capture }
AfterSecondary(success) == IF success THEN "lock" ELSE "capture"
\* AfterCapture without its success branch: the primary bot is always tried
AfterCaptureNoBranch(success) == "primary"
\* success = attemptOnCaptureBot(...); if success { Capture++ } else { primary }
AfterCapture(success) == IF success THEN "lock" ELSE "primary"
\* if err != nil { log } else { Official++ }
AfterPrimary(e) == IF e = "nil" THEN "lock" ELSE "done"

LogTier(u, t, ok) == [tierRes EXCEPT ![u] = Append(@, [t |-> t, ok |-> ok])]

handlerRest == <<hpc, premium, nUsers, limit, tokens, chanClosed, spawned, fed, response>>

\* TakeTask reading the head of the channel without taking it out
TakeTaskNoDequeue(w) ==
    /\ wpc[w] = "recv"
    /\ tasksChannel # << >>
    /\ cur' = [cur EXCEPT ![w] = Head(tasksChannel)]
    /\ wpc' = [wpc EXCEPT ![w] = "secondary"]
    /\ UNCHANGED <<storeVars, apiVars, maxWorkers, histVars, handlerRest>>
    /\ UNCHANGED <<tasksChannel, wg, mdsc, mdscLock, err, idx, sel, tier>>
    /\ UNCHANGED <<gateVars, regVars, ackVars>>

\* for request := range tasksChannel
TakeTask(w) ==
    /\ wpc[w] = "recv"
    /\ tasksChannel # << >>
    /\ cur' = [cur EXCEPT ![w] = Head(tasksChannel)]
    /\ tasksChannel' = Tail(tasksChannel)
    /\ wpc' = [wpc EXCEPT ![w] = "secondary"]
    /\ UNCHANGED <<storeVars, apiVars, maxWorkers, histVars, handlerRest>>
    /\ UNCHANGED <<wg, mdsc, mdscLock, err, idx, sel, tier>>
    /\ UNCHANGED <<gateVars, regVars, ackVars>>

\* the range loop ends once the channel is closed and drained
WorkerExit(w) ==
    /\ wpc[w] = "recv"
    /\ tasksChannel = << >>
    /\ chanClosed
    /\ wpc' = [wpc EXCEPT ![w] = "exit"]
    /\ UNCHANGED <<storeVars, apiVars, maxWorkers, histVars, handlerVars>>
    /\ UNCHANGED <<cur, idx, sel, tier>>
    /\ UNCHANGED <<gateVars, regVars, ackVars>>

\* attemptOnSecondaryTokens: skipped without a limit or without tokens,
\* else getAnySession takes the read lock
SecondaryEnter(w) ==
    /\ wpc[w] = "secondary"
    /\ IF limit = 0 \/ tokens = << >>
       THEN /\ tierRes' = LogTier(cur[w], "A", FALSE)
            /\ wpc' = [wpc EXCEPT ![w] = AfterSecondary(FALSE)]
            /\ UNCHANGED <<sessionReaders, idx>>
       ELSE /\ sessionWriter = 0
            /\ sessionReaders' = sessionReaders \cup {w}
            /\ idx' = [idx EXCEPT ![w] = 0]
            /\ wpc' = [wpc EXCEPT ![w] = "getAny"]
            /\ UNCHANGED tierRes
    /\ UNCHANGED <<storeVars, activeSessions, maxRequests5Seconds, maxWorkers,
                   handlerVars, cur, sel, tier, charged, examined, removed, rlSignals>>
    /\ UNCHANGED <<gateVars, regVars, ackVars>>

\* PruneStale leaving the set as it is
PruneStaleKept(S, h) == S
\* client.SRem(GuildTokensKey(guildID), hToken)
PruneStale(S, h) == S \ {h}

\* LimitReached one entry late: if i > limit
LimitReachedLate(i, lim) == i > lim
\* if i == limit { return nil, "" }
LimitReached(i, lim) == i = lim

\* getAnySession: one turn of the loop over the snapshot
GetAnySession(w) ==
    /\ wpc[w] = "getAny"
    /\ IF idx[w] >= Len(tokens) \/ LimitReached(idx[w], limit)
       THEN /\ sessionReaders' = sessionReaders \ {w}
            /\ tierRes' = LogTier(cur[w], "A", FALSE)
            /\ wpc' = [wpc EXCEPT ![w] = AfterSecondary(FALSE)]
            /\ UNCHANGED <<storeVars, idx, sel, examined, removed>>
       ELSE \E fault \in BatchFaults :
            LET h == tokens[idx[w] + 1]
                ok == Admitted(rateCounter, h, maxRequests5Seconds, fault)
            IN  /\ rateCounter' = AfterAdmit(rateCounter, h, maxRequests5Seconds, fault)
                /\ examined' = [examined EXCEPT ![cur[w]] = @ + 1]
                /\ IF ok /\ h \in activeSessions
                   THEN /\ sel' = [sel EXCEPT ![w] = h]
                        /\ sessionReaders' = sessionReaders \ {w}
                        /\ wpc' = [wpc EXCEPT ![w] = "secApply"]
                        /\ UNCHANGED <<guildTokens, idx, removed>>
                   ELSE /\ idx' = [idx EXCEPT ![w] = @ + 1]
                        /\ guildTokens' = IF ok THEN PruneStale(guildTokens, h) ELSE guildTokens
                        /\ removed' = IF ok THEN removed \cup {h} ELSE removed
                        /\ UNCHANGED <<sel, sessionReaders, wpc>>
                /\ UNCHANGED tierRes
    /\ UNCHANGED <<activeSessions, maxRequests5Seconds, maxWorkers, handlerVars,
                   cur, tier, charged, rlSignals>>
    /\ UNCHANGED <<gateVars, regVars, ackVars>>

ApplyOutcomes == {"ok", "fail", "ratelimit"}

\* attemptOnSecondaryTokens: the mutation through the session getAnySession gave
SecondaryApply(w, outcome, cooldown) ==
    /\ wpc[w] = "secApply"
    /\ tierRes' = LogTier(cur[w], "A", outcome = "ok")
    /\ wpc' = [wpc EXCEPT ![w] = AfterSecondary(outcome = "ok")]
    /\ tier' = [tier EXCEPT ![w] = IF outcome = "ok" THEN "Worker" ELSE @]
    /\ rateCounter' = IF outcome = "ratelimit"
                      THEN AfterBlacklist(rateCounter, sel[w], maxRequests5Seconds, cooldown)
                      ELSE rateCounter
    /\ rlSignals' = IF outcome = "ratelimit" THEN rlSignals + 1 ELSE rlSignals
    /\ UNCHANGED <<guildTokens, apiVars, maxWorkers, handlerVars, cur, idx, sel,
                   charged, examined, removed>>
    /\ UNCHANGED <<gateVars, regVars, ackVars>>

\* attemptOnCaptureBot: the gate on the capture key
CaptureAdmit(w) ==
    /\ wpc[w] = "capture"
    /\ \E fault \in BatchFaults :
         /\ rateCounter' = AfterAdmit(rateCounter, CaptureSentinel, maxRequests5Seconds, fault)
         /\ IF Admitted(rateCounter, CaptureSentinel, maxRequests5Seconds, fault)
            THEN /\ wpc' = [wpc EXCEPT ![w] = "ack"]
                 /\ UNCHANGED tierRes
            ELSE /\ wpc' = [wpc EXCEPT ![w] = AfterCapture(FALSE)]
                 /\ tierRes' = LogTier(cur[w], "B", FALSE)
    /\ UNCHANGED <<guildTokens, apiVars, maxWorkers, handlerVars, cur, idx, sel,
                   tier, charged, examined, removed, rlSignals>>
    /\ UNCHANGED <<gateVars, regVars, ackVars>>

\* what arrives while waitForAck waits: a payload, or the timer
AckEvents == {"true", "false", "timeout"}

\* WaitForAckResult taking any payload for an ack
WaitForAckResultAnyPayload(event) == event # "timeout"
\* waitForAck: result <- false on the timer, val.Payload == "true" on a message
WaitForAckResult(event) == IF event = "timeout" THEN FALSE ELSE event = "true"

\* attemptOnCaptureBot: subscribe, publish, wait for the ack; blacklist on false
CaptureAck(w, event) ==
    /\ wpc[w] = "ack"
    /\ tierRes' = LogTier(cur[w], "B", WaitForAckResult(event))
    /\ wpc' = [wpc EXCEPT ![w] = AfterCapture(WaitForAckResult(event))]
    /\ tier' = [tier EXCEPT ![w] = IF WaitForAckResult(event) THEN "Capture" ELSE @]
    /\ rateCounter' = IF WaitForAckResult(event)
                      THEN rateCounter
                      ELSE AfterBlacklist(rateCounter, CaptureSentinel, maxRequests5Seconds,
                                          UnresponsiveCaptureBlacklistDuration)
    /\ UNCHANGED <<guildTokens, apiVars, maxWorkers, handlerVars, cur, idx, sel,
                   charged, examined, removed, rlSignals>>
    /\ UNCHANGED <<gateVars, regVars, ackVars>>

\* err = task.ApplyMuteDeaf(shardManager.Session(0), ...): err is the handler's
PrimaryApply(w, outcome) ==
    /\ wpc[w] = "primary"
    /\ err' = outcome
    /\ tierRes' = LogTier(cur[w], "C", outcome = "nil")
    /\ wpc' = [wpc EXCEPT ![w] = "errCheck"]
    /\ UNCHANGED <<storeVars, apiVars, maxWorkers, cur, idx, sel, tier, charged,
                   examined, removed, rlSignals, handlerRest>>
    /\ UNCHANGED <<tasksChannel, wg, mdsc, mdscLock>>
    /\ UNCHANGED <<gateVars, regVars, ackVars>>

\* if err != nil { log } else { count }: reads the handler's err
PrimaryCheck(w) ==
    /\ wpc[w] = "errCheck"
    /\ wpc' = [wpc EXCEPT ![w] = AfterPrimary(err)]
    /\ tier' = [tier EXCEPT ![w] = IF AfterPrimary(err) = "lock" THEN "Official" ELSE @]
    /\ UNCHANGED <<storeVars, apiVars, maxWorkers, handlerVars, cur, idx, sel,
                   histVars>>
    /\ UNCHANGED <<gateVars, regVars, ackVars>>

\* LockCounts without waiting for the mutex
LockCountsNoWait(w) ==
    /\ wpc[w] = "lock"
    /\ mdscLock' = w
    /\ wpc' = [wpc EXCEPT ![w] = "inc"]
    /\ UNCHANGED <<storeVars, apiVars, maxWorkers, cur, idx, sel, tier, histVars,
                   handlerRest>>
    /\ UNCHANGED <<tasksChannel, wg, mdsc, err>>
    /\ UNCHANGED <<gateVars, regVars, ackVars>>

\* mdscLock.Lock()
LockCounts(w) ==
    /\ wpc[w] = "lock"
    /\ mdscLock = 0
    /\ mdscLock' = w
    /\ wpc' = [wpc EXCEPT ![w] = "inc"]
    /\ UNCHANGED <<storeVars, apiVars, maxWorkers, cur, idx, sel, tier, histVars,
                   handlerRest>>
    /\ UNCHANGED <<tasksChannel, wg, mdsc, err>>
    /\ UNCHANGED <<gateVars, regVars, ackVars>>

\* CountTier falling through to the next tier after a Worker or Capture count
CountTierFallThrough(w) ==
    /\ wpc[w] = "inc"
    /\ mdsc' = [mdsc EXCEPT ![tier[w]] = @ + 1]
    /\ charged' = [charged EXCEPT ![cur[w]] = Append(@, tier[w])]
    /\ mdscLock' = 0
    /\ wpc' = [wpc EXCEPT ![w] = CASE tier[w] = "Worker" -> "capture"
                                    [] tier[w] = "Capture" -> "primary"
                                    [] OTHER -> "done"]
    /\ UNCHANGED <<storeVars, apiVars, maxWorkers, cur, idx, sel, tier, tierRes,
                   examined, removed, rlSignals, handlerRest>>
    /\ UNCHANGED <<tasksChannel, wg, err>>
    /\ UNCHANGED <<gateVars, regVars, ackVars>>

\* mdsc.X++; mdscLock.Unlock()
CountTier(w) ==
    /\ wpc[w] = "inc"
    /\ mdsc' = [mdsc EXCEPT ![tier[w]] = @ + 1]
    /\ charged' = [charged EXCEPT ![cur[w]] = Append(@, tier[w])]
    /\ mdscLock' = 0
    /\ wpc' = [wpc EXCEPT ![w] = "done"]
    /\ UNCHANGED <<storeVars, apiVars, maxWorkers, cur, idx, sel, tier, tierRes,
                   examined, removed, rlSignals, handlerRest>>
    /\ UNCHANGED <<tasksChannel, wg, err>>
    /\ UNCHANGED <<gateVars, regVars, ackVars>>

\* wg.Done(), and back to the range over the channel
TaskDone(w) ==
    /\ wpc[w] = "done"
    /\ wg' = wg - 1
    /\ wpc' = [wpc EXCEPT ![w] = "recv"]
    /\ cur' = [cur EXCEPT ![w] = 0]
    /\ idx' = [idx EXCEPT ![w] = 0]
    /\ sel' = [sel EXCEPT ![w] = "none"]
    /\ tier' = [tier EXCEPT ![w] = "none"]
    /\ UNCHANGED <<storeVars, apiVars, maxWorkers, histVars, handlerRest>>
    /\ UNCHANGED <<tasksChannel, mdsc, mdscLock, err>>
    /\ UNCHANGED <<gateVars, regVars, ackVars>>

Worker(w) ==
    \/ TakeTask(w)
    \/ WorkerExit(w)
    \/ SecondaryEnter(w)
    \/ GetAnySession(w)
    \/ \E outcome \in ApplyOutcomes, cooldown \in 1..MaxCooldown :
         SecondaryApply(w, outcome, cooldown)
    \/ CaptureAdmit(w)
    \/ \E event \in AckEvents : CaptureAck(w, event)
    \/ \E outcome \in {"nil", "error"} : PrimaryApply(w, outcome)
    \/ PrimaryCheck(w)
    \/ LockCounts(w)
    \/ CountTier(w)
    \/ TaskDone(w)

Handler == ModifyRequest \/ StartWorkers \/ FeedTasks \/ WaitTasks \/ CloseTasks \/ Respond

Next == Handler \/ \E w \in Workers : Worker(w)

Spec == Init /\ [][Next]_vars


\* ------------------------------------------------------------ the rate gate
\* IncrAndTestGuildTokenComboLock and BlacklistTokenForDuration on one pair,
\* called concurrently, with store faults, while time passes
GatePair == "h1"
MaxOf(a, b) == IF a >= b THEN a ELSE b

\* i, err := Incr(...).Result(); usable := i < maxRequests5Seconds;
\* if !usable { return false }
GateIncr(c, fault) ==
    /\ gpc[c] \in {"idle", "returned"}
    /\ calls < MaxCalls
    /\ calls' = calls + 1
    /\ LET i == IncrResult(rateCounter, GatePair, fault)
           usable == Usable(i, maxRequests5Seconds)
       IN  /\ rateCounter' = IF fault THEN rateCounter ELSE StoreIncr(rateCounter, GatePair)
           /\ gi' = [gi EXCEPT ![c] = i]
           /\ gfault' = [gfault EXCEPT ![c] = fault]
           /\ gBl' = [gBl EXCEPT ![c] = blLeft > 0]
           /\ gres' = [gres EXCEPT ![c] = FALSE]
           /\ gpc' = [gpc EXCEPT ![c] = IF usable THEN "expire" ELSE "returned"]
           /\ admits' = IF usable /\ ~fault THEN admits + 1 ELSE admits
           /\ admitsAll' = IF usable /\ (~fault \/ rateCounter[GatePair].ex)
                           THEN admitsAll + 1 ELSE admitsAll
    /\ UNCHANGED <<guildTokens, apiVars, batchVars, blCalls, blLeft, expireErrs>>
    /\ UNCHANGED <<regVars, ackVars>>

\* GateExpire without the Expire command: the call returns true at once
GateExpireSkipped(c, fault) ==
    /\ gpc[c] = "expire"
    /\ gres' = [gres EXCEPT ![c] = TRUE]
    /\ gpc' = [gpc EXCEPT ![c] = "returned"]
    /\ UNCHANGED <<storeVars, apiVars, batchVars, gi, gfault, gBl, calls, blCalls,
                   blLeft, admits, admitsAll, expireErrs>>
    /\ UNCHANGED <<regVars, ackVars>>

\* err = Expire(key, 5s); return true (an error is logged only)
GateExpire(c, fault) ==
    /\ gpc[c] = "expire"
    /\ rateCounter' = IF fault THEN rateCounter
                      ELSE StoreExpire(rateCounter, GatePair, ExpireSeconds)
    /\ expireErrs' = IF fault THEN expireErrs + 1 ELSE expireErrs
    /\ gres' = [gres EXCEPT ![c] = TRUE]
    /\ gpc' = [gpc EXCEPT ![c] = "returned"]
    /\ UNCHANGED <<guildTokens, apiVars, batchVars, gi, gfault, gBl, calls, blCalls,
                   blLeft, admits, admitsAll>>
    /\ UNCHANGED <<regVars, ackVars>>

\* BlacklistTokenForDuration: Set(key, maxRequests5Seconds, duration)
GateBlacklist(d) ==
    /\ blCalls < MaxBlacklists
    /\ blCalls' = blCalls + 1
    /\ rateCounter' = AfterBlacklist(rateCounter, GatePair, maxRequests5Seconds, d)
    /\ blLeft' = d
    /\ UNCHANGED <<guildTokens, apiVars, batchVars, gpc, gi, gfault, gres, gBl, calls,
                   admits, admitsAll, expireErrs>>
    /\ UNCHANGED <<regVars, ackVars>>

\* the store's clock: ExpireSeconds pass; a key whose TTL runs out is deleted
StoreTick(rc, k, dt) ==
    IF rc[k].ex /\ rc[k].ttl > 0
    THEN IF rc[k].ttl <= dt THEN [rc EXCEPT ![k] = NoKey]
                            ELSE [rc EXCEPT ![k].ttl = @ - dt]
    ELSE rc

Tick ==
    /\ (rateCounter[GatePair].ex /\ rateCounter[GatePair].ttl > 0) \/ blLeft > 0
    /\ rateCounter' = StoreTick(rateCounter, GatePair, ExpireSeconds)
    /\ blLeft' = MaxOf(blLeft - ExpireSeconds, 0)
    /\ admits' = IF rateCounter'[GatePair].ex THEN admits ELSE 0
    /\ admitsAll' = IF rateCounter'[GatePair].ex THEN admitsAll ELSE 0
    /\ UNCHANGED <<guildTokens, apiVars, batchVars, gpc, gi, gfault, gres, gBl, calls,
                   blCalls, expireErrs>>
    /\ UNCHANGED <<regVars, ackVars>>

InitGate ==
    /\ rateCounter = [k \in Keys |-> NoKey]
    /\ guildTokens = {}
    /\ activeSessions = {}
    /\ maxRequests5Seconds \in (0 - 1)..MaxReqCfg
    /\ sessionReaders = {}
    /\ maxWorkers = DefaultMaxWorkers
    /\ BatchIdle
    /\ GateIdle
    /\ RegIdle
    /\ AckIdle

NextGate ==
    \/ \E c \in GateCallers, fault \in BOOLEAN : GateIncr(c, fault)
    \/ \E c \in GateCallers, fault \in BOOLEAN : GateExpire(c, fault)
    \/ GateBlacklist(UnresponsiveCaptureBlacklistDuration)
    \/ Tick

SpecGate == InitGate /\ [][NextGate]_vars

\* ------------------------------------------------------ the session registry
Tokens == {"t1", "t2"}
\* hashToken: the hex SHA-256 of the credential, one hash per credential
HashToken(t) == IF t = "t1" THEN "h1" ELSE "h2"
\* what discordgo.New and sess.Open may do
OpenOutcomes == {"newError", "openError", "opened"}
Closer == MaxOpeners + 1

\* AlreadyActive without the lookup: every call opens a session
AlreadyActiveUnchecked(k) == FALSE
\* _, ok := tokenProvider.activeSessions[k]
AlreadyActive(k) == k \in activeSessions

\* k := hashToken(botToken); sessionLock.Lock()
OpenLock(p, t) ==
    /\ opc[p] = "idle"
    /\ sessionWriter = 0 /\ sessionReaders = {}
    /\ sessionWriter' = p
    /\ otok' = [otok EXCEPT ![p] = HashToken(t)]
    /\ ores' = [ores EXCEPT ![p] = FALSE]
    /\ opc' = [opc EXCEPT ![p] = "locked"]
    /\ UNCHANGED <<cpc, liveSessions, activeSessions, maxRequests5Seconds,
                   sessionReaders>>
    /\ UNCHANGED <<storeVars, batchVars, gateVars, ackVars, handlers, evSeen>>

\* if !ok { New; Open } else return false
OpenSession(p, outcome) ==
    /\ opc[p] = "locked"
    /\ IF AlreadyActive(otok[p]) \/ outcome # "opened"
       THEN /\ opc' = [opc EXCEPT ![p] = "unlock"]
            /\ UNCHANGED liveSessions
       ELSE /\ liveSessions' = [liveSessions EXCEPT ![otok[p]] = @ + 1]
            /\ opc' = [opc EXCEPT ![p] = "register"]
    /\ UNCHANGED <<sessionWriter, otok, ores, cpc, activeSessions,
                   maxRequests5Seconds, sessionReaders>>
    /\ UNCHANGED <<storeVars, batchVars, gateVars, ackVars, handlers, evSeen>>

\* sess.AddHandler(newGuild(k)); activeSessions[k] = sess; return true
OpenRegister(p) ==
    /\ opc[p] = "register"
    /\ handlers' = handlers \cup {otok[p]}
    /\ activeSessions' = activeSessions \cup {otok[p]}
    /\ ores' = [ores EXCEPT ![p] = TRUE]
    /\ opc' = [opc EXCEPT ![p] = "unlock"]
    /\ UNCHANGED <<sessionWriter, otok, cpc, liveSessions, maxRequests5Seconds,
                   sessionReaders>>
    /\ UNCHANGED <<storeVars, batchVars, gateVars, ackVars, evSeen>>

\* defer sessionLock.Unlock()
OpenUnlock(p) ==
    /\ opc[p] = "unlock"
    /\ sessionWriter' = 0
    /\ opc' = [opc EXCEPT ![p] = "idle"]
    /\ UNCHANGED <<otok, ores, cpc, liveSessions, activeSessions,
                   maxRequests5Seconds, sessionReaders>>
    /\ UNCHANGED <<storeVars, batchVars, gateVars, ackVars, handlers, evSeen>>

\* Close: shardManager.StopAll(); sessionLock.Lock()
CloseLock ==
    /\ cpc = "idle"
    /\ sessionWriter = 0 /\ sessionReaders = {}
    /\ sessionWriter' = Closer
    /\ cpc' = "locked"
    /\ UNCHANGED <<opc, otok, ores, liveSessions, activeSessions,
                   maxRequests5Seconds, sessionReaders>>
    /\ UNCHANGED <<storeVars, batchVars, gateVars, ackVars, handlers, evSeen>>

\* for _, v := range activeSessions { v.Close() }; activeSessions = map{}
CloseSessions ==
    /\ cpc = "locked"
    /\ liveSessions' = [h \in Hashes |->
                          IF h \in activeSessions THEN liveSessions[h] - 1
                                                  ELSE liveSessions[h]]
    /\ handlers' = handlers \ activeSessions
    /\ activeSessions' = {}
    /\ cpc' = "unlock"
    /\ UNCHANGED <<sessionWriter, opc, otok, ores, maxRequests5Seconds,
                   sessionReaders>>
    /\ UNCHANGED <<storeVars, batchVars, gateVars, ackVars, evSeen>>

\* sessionLock.Unlock()
CloseUnlock ==
    /\ cpc = "unlock"
    /\ sessionWriter' = 0
    /\ cpc' = "idle"
    /\ UNCHANGED <<opc, otok, ores, liveSessions, activeSessions,
                   maxRequests5Seconds, sessionReaders>>
    /\ UNCHANGED <<storeVars, batchVars, gateVars, ackVars, handlers, evSeen>>

\* newGuild: a GuildCreate event of the open session of hash h. With the
\* handler attached it takes the read lock and, h being registered, adds h to
\* the guild's token set; with no handler attached the event goes unheard.
GuildCreate(h) ==
    /\ liveSessions[h] > 0
    /\ evSeen' = evSeen \cup {h}
    /\ IF h \in handlers
       THEN /\ sessionWriter = 0
            /\ guildTokens' = IF h \in activeSessions THEN guildTokens \cup {h}
                                                       ELSE guildTokens
       ELSE UNCHANGED guildTokens
    /\ UNCHANGED <<rateCounter, apiVars, batchVars, gateVars, ackVars>>
    /\ UNCHANGED <<sessionWriter, opc, otok, ores, cpc, liveSessions, handlers>>

InitReg ==
    /\ rateCounter = [k \in Keys |-> NoKey]
    /\ guildTokens = {}
    /\ activeSessions = {}
    /\ maxRequests5Seconds \in 1..MaxReqCfg
    /\ sessionReaders = {}
    /\ maxWorkers = DefaultMaxWorkers
    /\ BatchIdle
    /\ GateIdle
    /\ RegIdle
    /\ AckIdle

NextReg ==
    \/ \E p \in Openers, t \in Tokens : OpenLock(p, t)
    \/ \E p \in Openers, outcome \in OpenOutcomes : OpenSession(p, outcome)
    \/ \E p \in Openers : OpenRegister(p)
    \/ \E p \in Openers : OpenUnlock(p)
    \/ CloseLock
    \/ CloseSessions
    \/ CloseUnlock
    \/ \E h \in Hashes : GuildCreate(h)

SpecReg == InitReg /\ [][NextReg]_vars

\* ------------------------------------------------------------- waitForAck
\* one wait for the capture worker's ack on an open subscription; the caller
\* receives what is sent on the result channel
AckPayloads == {"true", "false", "TRUE"}

\* t := time.NewTimer(waitTime); defer pubsub.Close(); channel := pubsub.Channel()
AckStart ==
    /\ apc = "off"
    /\ subOpen
    /\ apc' = "select"
    /\ UNCHANGED <<timerFired, ackChannel, ackTaken, ackResult, subOpen, ackFirst, ackRace>>
    /\ UNCHANGED <<storeVars, apiVars, batchVars, gateVars, regVars>>

\* the subscription delivers a payload: to the select that is parked on the
\* channel, else into the channel's buffer
AckArrives(payload) ==
    /\ subOpen
    /\ apc \in {"off", "select", "parked"}
    /\ Len(ackChannel) < MaxAcks
    /\ ackFirst' = IF ackFirst = "none" THEN payload ELSE ackFirst
    /\ IF apc = "parked"
       THEN /\ ackTaken' = payload
            /\ apc' = "send"
            /\ UNCHANGED ackChannel
       ELSE /\ ackChannel' = Append(ackChannel, payload)
            /\ UNCHANGED <<apc, ackTaken>>
    /\ UNCHANGED <<timerFired, ackResult, subOpen, ackRace>>
    /\ UNCHANGED <<storeVars, apiVars, batchVars, gateVars, regVars>>

\* waitTime is over: t.C becomes ready, and a select parked on it takes it
TimerFires ==
    /\ apc \in {"select", "parked"}
    /\ ~timerFired
    /\ timerFired' = TRUE
    /\ ackFirst' = IF ackFirst = "none" THEN "timeout" ELSE ackFirst
    /\ IF apc = "parked"
       THEN ackTaken' = "timeout" /\ apc' = "send"
       ELSE UNCHANGED <<apc, ackTaken>>
    /\ UNCHANGED <<ackChannel, ackResult, subOpen, ackRace>>
    /\ UNCHANGED <<storeVars, apiVars, batchVars, gateVars, regVars>>

\* select { case <-t.C: ... case val := <-channel: ... }; with both cases
\* ready either is taken, with none the goroutine parks; t.Stop()
AckSelect ==
    /\ apc = "select"
    /\ ackRace' = (timerFired /\ ackChannel # << >>)
    /\ \/ /\ ~timerFired /\ ackChannel = << >>
          /\ apc' = "parked"
          /\ UNCHANGED <<ackTaken, ackChannel>>
       \/ /\ timerFired
          /\ ackTaken' = "timeout"
          /\ apc' = "send"
          /\ UNCHANGED ackChannel
       \/ /\ ackChannel # << >>
          /\ ackTaken' = Head(ackChannel)
          /\ ackChannel' = Tail(ackChannel)
          /\ apc' = "send"
    /\ UNCHANGED <<timerFired, ackResult, subOpen, ackFirst>>
    /\ UNCHANGED <<storeVars, apiVars, batchVars, gateVars, regVars>>

\* result <- false, or result <- val.Payload == "true"
AckSend ==
    /\ apc = "send"
    /\ ackResult' = Append(ackResult, WaitForAckResult(ackTaken))
    /\ apc' = "exit"
    /\ UNCHANGED <<timerFired, ackChannel, ackTaken, subOpen, ackFirst, ackRace>>
    /\ UNCHANGED <<storeVars, apiVars, batchVars, gateVars, regVars>>

\* return, and with it the deferred pubsub.Close()
AckReturn ==
    /\ apc = "exit"
    /\ subOpen' = FALSE
    /\ apc' = "returned"
    /\ UNCHANGED <<timerFired, ackChannel, ackTaken, ackResult, ackFirst, ackRace>>
    /\ UNCHANGED <<storeVars, apiVars, batchVars, gateVars, regVars>>

InitAck ==
    /\ rateCounter = [k \in Keys |-> NoKey]
    /\ guildTokens = {}
    /\ activeSessions = {}
    /\ maxRequests5Seconds \in 1..MaxReqCfg
    /\ sessionReaders = {}
    /\ maxWorkers = DefaultMaxWorkers
    /\ BatchIdle
    /\ GateIdle
    /\ RegIdle
    /\ apc = "off" /\ timerFired = FALSE /\ ackChannel = << >> /\ ackTaken = "none"
    /\ ackResult = << >> /\ subOpen = TRUE /\ ackFirst = "none" /\ ackRace = FALSE

NextAck ==
    \/ AckStart
    \/ \E payload \in AckPayloads : AckArrives(payload)
    \/ TimerFires
    \/ AckSelect
    \/ AckSend
    \/ AckReturn

SpecAck == InitAck /\ [][NextAck]_vars

\* ------------------------------------------------------- claims on a batch
Range(q) == {q[i] : i \in 1..Len(q)}
CountSum(c) == c.Worker + c.Capture + c.Official
\* the dispatch of user u is over
Finished(u) == tierRes[u] # << >> /\ \A w \in Workers : cur[w] # u
PrimaryOK(u) == Len(tierRes[u]) = 3 /\ tierRes[u][3].ok
TierNames == <<"A", "B", "C">>

\* C1: every user of a batch bumps at most one of the counters worker, capture,
\* official, so at every moment, and in the response, their sum is at most N.
C1_OneCounterPerUser ==
    /\ \A u \in Users : Len(charged[u]) <= 1
    /\ CountSum(mdsc) <= nUsers
    /\ CountSum(mdsc) = Cardinality({u \in Users : charged[u] # << >>})
    /\ response.status = 200 => CountSum(response.body) <= nUsers

C1_Witness ==
    /\ response.status = 200
    /\ nUsers >= 2
    /\ spawned >= 2
    /\ CountSum(response.body) = nUsers - 1

\* C2: the tiers of one user run in the order A, B, C; a tier is entered only
\* after the one before it returned failure, and none after a success.
TierOrder(log) ==
    /\ Len(log) <= 3
    /\ \A p \in 1..Len(log) : log[p].t = TierNames[p]
    /\ \A p \in 1..(Len(log) - 1) : ~log[p].ok

C2_StrictTierOrder ==
    /\ \A u \in Users : TierOrder(tierRes[u])
    /\ \A w \in Workers :
         /\ wpc[w] \in {"secondary", "getAny", "secApply"} => tierRes[cur[w]] = << >>
         /\ wpc[w] \in {"capture", "ack"} =>
                tierRes[cur[w]] = <<[t |-> "A", ok |-> FALSE]>>
         /\ wpc[w] \in {"primary"} =>
                tierRes[cur[w]] = <<[t |-> "A", ok |-> FALSE], [t |-> "B", ok |-> FALSE]>>
         /\ wpc[w] \in {"lock", "inc"} =>
                /\ tierRes[cur[w]] # << >>
                /\ tier[w] = CASE Len(tierRes[cur[w]]) = 1 -> "Worker"
                               [] Len(tierRes[cur[w]]) = 2 -> "Capture"
                               [] OTHER -> "Official"

C2_Witness ==
    \E u \in Users : Finished(u) /\ Len(tierRes[u]) = 3 /\ charged[u] = <<"Official">>

\* C3: a finished user is counted in official if and only if that user's own
\* primary-bot mutation returned success.
C3_OfficialIffPrimaryOK ==
    \A u \in Users : Finished(u) => (("Official" \in Range(charged[u])) <=> PrimaryOK(u))

\* C7: tier A examines at most limit = PremiumBotConstraints[premium] entries of
\* the snapshot per user; limit is 0 for premium 0, 1 and unknown tiers, and then
\* no token's counter is incremented, no token is removed, no session is handed out.
C7_SecondaryLimit ==
    /\ limit = PremiumBotConstraints(premium)
    /\ premium \in {0, 1, 6} => limit = 0
    /\ \A u \in Users : examined[u] <= limit
    /\ limit = 0 =>
         /\ \A h \in Hashes : rateCounter[h] = NoKey
         /\ removed = {}
         /\ \A w \in Workers : sel[w] = "none" /\ wpc[w] \notin {"getAny", "secApply"}

C7_Witness ==
    \E u \in Users :
        /\ Finished(u)
        /\ limit = 1
        /\ Len(tokens) = 2
        /\ examined[u] = 1
        /\ ~tierRes[u][1].ok

\* C8: a well-formed batch is never stuck: until the response is written some
\* step of the handler or of a worker can be taken.
C8_BatchCompletes == hpc = "done" \/ ENABLED Next

\* C9: a malformed request is answered 400 and changes nothing: no store key,
\* no registry entry, no worker, no tier.
C9_RejectChangesNothing ==
    [][response'.status = 400 =>
         /\ UNCHANGED <<storeVars, apiVars, workerVars, histVars>>
         /\ UNCHANGED <<tasksChannel, wg, mdsc, spawned, fed>>
         /\ hpc' = "done"]_vars

C9_Witness ==
    /\ response.status = 400
    /\ hpc = "done"
    /\ err = "error"
    /\ guildTokens # {}
    /\ \A w \in Workers : wpc[w] = "off"

\* C11: a batch with an empty users array is answered 200 with all four
\* counters zero, and no worker was started for it.
C11_EmptyBatchStartsNoWorker ==
    (response.status = 200 /\ nUsers = 0) =>
        /\ response.body = ZeroCounts
        /\ spawned = 0
        /\ \A w \in Workers : wpc[w] = "off"

\* users whose tier t returned success
TierSuccesses(t) ==
    Cardinality({u \in Users :
                    \E p \in 1..Len(tierRes[u]) : tierRes[u][p].t = t /\ tierRes[u][p].ok})

\* C13: a counter is incremented only by the one worker that holds mdscLock;
\* once wg.Wait() has returned no worker is in a dispatch or an increment, and
\* the response carries the counters as they then are: worker and capture
\* equal the number of users that succeeded at that tier.
C13_CountersSerialized ==
    /\ \A w \in Workers : wpc[w] = "inc" => mdscLock = w
    /\ mdscLock # 0 => wpc[mdscLock] = "inc"
    /\ (hpc \in {"close", "respond", "done"} /\ response.status # 400) =>
          /\ \A w \in Workers : wpc[w] \in {"off", "recv", "exit"}
          /\ mdscLock = 0
          /\ \A u \in 1..nUsers : Finished(u)
          /\ mdsc.Worker = TierSuccesses("A")
          /\ mdsc.Capture = TierSuccesses("B")
    /\ response.status = 200 =>
          /\ response.body = mdsc
          /\ response.body.Worker = TierSuccesses("A")
          /\ response.body.Capture = TierSuccesses("B")

C13_Witness ==
    /\ response.status = 200
    /\ nUsers = 2
    /\ spawned = 2
    /\ response.body.Worker = 1
    /\ response.body.Capture = 1

InChannel(u) == Cardinality({i \in 1..Len(tasksChannel) : tasksChannel[i] = u})
Holding(u) == Cardinality({w \in Workers : cur[w] = u})

C20_RateLimitCounted ==
    response.status = 200 => response.body.RateLimit = rlSignals


\* ------------------------------------------------------ claims on the gate
\* the call of c was answered true, or will be once its Expire is done
GateAdmitted(c) == gpc[c] = "expire" \/ (gpc[c] = "returned" /\ gres[c])

\* C4, as claimed (for limits of 1 and more, where MaxReq5s - 1 is a count):
\* of the admit calls made on the pair while its key lives, at most
\* MaxReq5s - 1 are answered true.
C4_AdmitBound ==
    maxRequests5Seconds >= 1 => admitsAll <= maxRequests5Seconds - 1

\* C4, amended: of the admit calls on the pair whose increment the store
\* answered without an error, made while the key lives, at most
\* max(MaxReq5s - 1, 0) are answered true.
C4_AdmitBoundStoreAnswers ==
    admits <= MaxOf(maxRequests5Seconds - 1, 0)

C4_Witness ==
    /\ maxRequests5Seconds >= 2
    /\ admits = maxRequests5Seconds - 1
    /\ \E c \in GateCallers :
         gpc[c] = "returned" /\ ~gfault[c] /\ ~gres[c] /\ gi[c] >= maxRequests5Seconds

\* C5: an admit whose increment the store performs after the blacklist was
\* written, and before its duration is over, is answered false.
C5_BlacklistHolds ==
    \A c \in GateCallers :
        (gpc[c] # "idle" /\ gBl[c] /\ ~gfault[c]) => ~GateAdmitted(c)

\* C6: an admit whose increment fails in the store is answered
\* true, whatever MaxReq5s is.
C6_FailOpen ==
    \A c \in GateCallers : (gpc[c] # "idle" /\ gfault[c]) => GateAdmitted(c)

\* the step is the Expire of caller c, after which its call returns
ExpireStep(c) == gpc[c] = "expire" /\ gpc'[c] = "returned"
\* the step is the Incr of a call that is answered false at once
RefusedStep == calls' = calls + 1 /\ \A c \in GateCallers : gpc'[c] = "expire" => gpc[c] = "expire"

\* C15, as claimed: the call that returns true leaves the pair's counter with
\* a TTL of 5 seconds; the call that returns false leaves the TTL as it was.
C15_TrueResetsTTL ==
    [][/\ \A c \in GateCallers :
            (ExpireStep(c) /\ rateCounter[GatePair].ex) =>
                gres'[c] /\ rateCounter'[GatePair].ttl = ExpireSeconds
       /\ RefusedStep => rateCounter'[GatePair].ttl = rateCounter[GatePair].ttl]_vars

\* C15, amended: the call that returns true has sent Expire, which leaves the
\* pair's counter with a TTL of 5 seconds and its value as it was unless the
\* store answers the command with an error, and then the counter is as it
\* was; the call that returns false leaves the TTL as it was.
C15_TrueSendsExpire ==
    [][/\ \A c \in GateCallers :
            (ExpireStep(c) /\ rateCounter[GatePair].ex) =>
                /\ gres'[c]
                /\ rateCounter'[GatePair].val = rateCounter[GatePair].val
                /\ IF expireErrs' = expireErrs
                   THEN rateCounter'[GatePair].ttl = ExpireSeconds
                   ELSE rateCounter'[GatePair].ttl = rateCounter[GatePair].ttl
       /\ RefusedStep => rateCounter'[GatePair].ttl = rateCounter[GatePair].ttl]_vars

C15_Witness ==
    /\ rateCounter[GatePair].ex
    /\ rateCounter[GatePair].ttl = ExpireSeconds
    /\ rateCounter[GatePair].val > maxRequests5Seconds
    /\ expireErrs = 0
    /\ \E c \in GateCallers : gpc[c] = "returned" /\ ~gres[c] /\ ~gfault[c]

\* C16: once no call on the pair is under way its counter, if there is one,
\* carries a TTL (the store having executed every Expire it was sent).
C16_EveryKeyExpires ==
    (expireErrs = 0 /\ rateCounter[GatePair].ex /\ \A c \in GateCallers : gpc[c] # "expire")
        => rateCounter[GatePair].ttl > 0

\* -------------------------------------------------- claims on the registry
\* C12: every step that opens or closes a session towards the chat service is
\* taken with sessionLock free.
C12_NoLockAcrossChatCall ==
    [][liveSessions' # liveSessions => sessionWriter = 0]_vars

\* C18: the hashes in the guild's token set are those whose open session has
\* emitted a guild-available event: every event adds its hash, nothing else does.
C18_EveryEventAdds == guildTokens = evSeen

\* C10: with no registration or Close under way, a hash is in activeSessions
\* exactly when one session is open for it; at no time are two sessions open
\* for one hash, and a call for a registered hash opens and changes nothing.
C10_RegistryMatchesSessions ==
    /\ \A h \in Hashes : liveSessions[h] <= 1
    /\ sessionWriter = 0 =>
         \A h \in Hashes : h \in activeSessions <=> liveSessions[h] = 1
    /\ \A p \in Openers :
         (opc[p] = "unlock" /\ ores[p]) =>
             otok[p] \in activeSessions /\ liveSessions[otok[p]] = 1

C10_Witness ==
    \E p \in Openers :
        /\ opc[p] = "unlock" /\ ~ores[p]
        /\ otok[p] \in activeSessions
        /\ liveSessions[otok[p]] = 1
        /\ cpc = "idle"

\* ------------------------------------------------------ claims on the wait
\* C19, as claimed: the wait delivers one result, true exactly when the first
\* thing to happen was the arrival of the payload "true" (and not the timer or
\* another payload), and the subscription is closed when the wait has returned.
C19_AckResult ==
    /\ Len(ackResult) <= 1
    /\ apc \in {"exit", "returned"} =>
          Len(ackResult) = 1 /\ (ackResult[1] <=> ackFirst = "true")
    /\ apc = "returned" => ~subOpen

\* C19, amended: the wait delivers one result, true exactly when its select
\* took the payload "true" from the ack channel; that is the first thing to
\* have happened unless the select found the timer and a payload both pending,
\* when either is taken; the subscription is closed when the wait has returned.
C19_AckResultOfSelect ==
    /\ Len(ackResult) <= 1
    /\ apc \in {"off", "select", "parked", "send"} => ackResult = << >>
    /\ apc \in {"exit", "returned"} =>
          /\ Len(ackResult) = 1
          /\ ackResult[1] <=> ackTaken = "true"
          /\ ~ackRace => (ackResult[1] <=> ackFirst = "true")
    /\ apc = "returned" <=> ~subOpen

C19_Witness ==
    /\ apc = "returned"
    /\ ackRace
    /\ ackFirst = "true"
    /\ ackResult = <<FALSE>>

====
